---------------------------- MODULE Spec2Model ----------------------------
(***************************************************************************)
(* Model of the command gate of the system administrator agent:           *)
(*   - CommandValidator  (src/src/security/command_validator.py)          *)
(*   - SystemExecutor    (src/src/utils/system_executor.py)               *)
(*   - AuditLogger       (src/src/security/audit_logger.py)               *)
(*   - SysAdminAgent     (src/src/agent/sysadmin_agent.py)                *)
(* Commands are TLA+ strings handled character by character, so that      *)
(* normalisation, case folding, substring tests and the regular           *)
(* expressions of the validator are computed the way the code does.       *)
(***************************************************************************)
EXTENDS Integers, Sequences, FiniteSets, TLC

VARIABLES
    config,              \* security configuration handed to the constructors
    environ,             \* os.environ of the service, as (name, value) pairs
    initialized,         \* CommandValidator.initialized
    allowed_commands,    \* CommandValidator.allowed_commands
    forbidden_commands,  \* CommandValidator.forbidden_commands
    forbidden_paths,     \* CommandValidator.forbidden_paths (as str(Path(p)))
    input,               \* the string a direct is_allowed call is given
    call,                \* the direct is_allowed call: its argument, the
                         \* normalized command it examined, and its outcome
    audit,               \* AuditLogger flags: enabled, initialized, toggles
    audit_log,           \* lines appended to the audit stream, in order
    diag,                \* lines the audit module wrote to its own logger
    fs,                  \* the audit file: the paths that name it, its age
                         \* and whether writing to it fails
    last,                \* the last direct call of an AuditLogger method
    pc,                  \* position of process_request
    ret,                 \* how the process_request call ended
    commands,            \* commands extracted from the model response
    decisions,           \* is_allowed outcome of each extracted command
    validated_commands,  \* process_request's validated_commands
    next_cmd,            \* index of _execute_commands in validated_commands
    exec_calls,          \* commands passed to SystemExecutor.execute
    results,             \* _execute_commands' results list
    epc,                 \* position of SystemExecutor.execute
    proc,                \* the child process execute created last
    kill_sent,           \* process.kill() delivered SIGKILL to the child
    outcome,             \* how the last execute call ended
    handler,             \* the file handler of the audit logger: its lock,
                         \* the stream's pending text, the characters of the
                         \* file, and the threads inside a log_* call
    gateway              \* APIGateway: request_counts, the clock, and the
                         \* chat requests received

vars == << config, environ, handler, gateway,
           initialized, allowed_commands, forbidden_commands,
           forbidden_paths, input, call, audit, audit_log, diag, fs, last,
           pc, ret,
           commands, decisions, validated_commands, next_cmd, exec_calls,
           results, epc, proc, kill_sent, outcome >>

validatorVars == << initialized, allowed_commands, forbidden_commands,
                    forbidden_paths >>
gateVars == << pc, ret, commands, decisions, validated_commands, next_cmd,
               exec_calls, results >>
execVars == << epc, proc, kill_sent, outcome >>
trailVars == << audit_log, diag, fs >>

(***************************************************************************)
(* Strings                                                                 *)
(***************************************************************************)
Ch(s, i) == SubSeq(s, i, i)

\* Python's str.isspace / the regex class \s, on the characters used here
IsSpace(c) == c \in {" ", "\t", "\n", "\r"}

\* str.lower on the ASCII letters
LowerMap ==
    "A" :> "a" @@ "B" :> "b" @@ "C" :> "c" @@ "D" :> "d" @@ "E" :> "e" @@
    "F" :> "f" @@ "G" :> "g" @@ "H" :> "h" @@ "I" :> "i" @@ "J" :> "j" @@
    "K" :> "k" @@ "L" :> "l" @@ "M" :> "m" @@ "N" :> "n" @@ "O" :> "o" @@
    "P" :> "p" @@ "Q" :> "q" @@ "R" :> "r" @@ "S" :> "s" @@ "T" :> "t" @@
    "U" :> "u" @@ "V" :> "v" @@ "W" :> "w" @@ "X" :> "x" @@ "Y" :> "y" @@
    "Z" :> "z"

LowerChar(c) == IF c \in DOMAIN LowerMap THEN LowerMap[c] ELSE c

\* the concatenation of pieces[lo..hi]
RECURSIVE Join(_, _, _)
Join(pieces, lo, hi) ==
    IF lo > hi THEN ""
    ELSE IF lo = hi THEN pieces[lo]
    ELSE LET mid == (lo + hi) \div 2 IN
         Join(pieces, lo, mid) \o Join(pieces, mid + 1, hi)

\* s rebuilt character by character, Piece(i) standing for character i
Rebuild(s, Piece(_)) == Join([i \in 1..Len(s) |-> Piece(i)], 1, Len(s))

StrLower(s) == LET Piece(i) == LowerChar(Ch(s, i)) IN Rebuild(s, Piece)

NonSpaces(s) == { i \in 1..Len(s) : ~IsSpace(Ch(s, i)) }
Min(S) == CHOOSE x \in S : \A y \in S : x <= y
Max(S) == CHOOSE x \in S : \A y \in S : x >= y

LStrip(s) ==
    IF NonSpaces(s) = {} THEN "" ELSE SubSeq(s, Min(NonSpaces(s)), Len(s))

RStrip(s) ==
    IF NonSpaces(s) = {} THEN "" ELSE SubSeq(s, 1, Max(NonSpaces(s)))

StrStrip(s) == RStrip(LStrip(s))

StartsWith(s, p) == Len(p) <= Len(s) /\ SubSeq(s, 1, Len(p)) = p

\* Python's `needle in hay`
Contains(hay, needle) ==
    \/ needle = ""
    \/ \E i \in 1..(Len(hay) - Len(needle) + 1) :
           SubSeq(hay, i, i + Len(needle) - 1) = needle

\* re.sub(r'#.*$', '', s, flags=re.MULTILINE): a character is removed when a
\* '#' stands at or before it on its line ('.' does not match the newline)
RemoveComments(s) ==
    LET hashes == { j \in 1..Len(s) : Ch(s, j) = "#" }
        newlines == { k \in 1..Len(s) : Ch(s, k) = "\n" }
        InComment(i) ==
            \E j \in hashes :
                j <= i /\ ~\E k \in newlines : j <= k /\ k <= i
        Piece(i) == IF InComment(i) THEN "" ELSE Ch(s, i)
    IN Rebuild(s, Piece)

\* re.sub(r'\s+', ' ', s): every maximal whitespace run becomes one space
CollapseSpaces(s) ==
    LET Piece(i) ==
            IF ~IsSpace(Ch(s, i)) THEN Ch(s, i)
            ELSE IF i > 1 /\ IsSpace(Ch(s, i - 1)) THEN "" ELSE " "
    IN Rebuild(s, Piece)

\* str.split()[0], or "" when there is no token
BaseCommand(s) ==
    LET t == LStrip(s)
        spaces == { i \in 1..Len(t) : IsSpace(Ch(t, i)) }
    IN IF spaces = {} THEN t ELSE SubSeq(t, 1, Min(spaces) - 1)

\* str(pathlib.Path(p)) for absolute POSIX paths without "." components:
\* slash runs collapse, a trailing slash is dropped, "" becomes "."
CollapseSlashes(s) ==
    LET Piece(i) ==
            IF Ch(s, i) = "/" /\ i > 1 /\ Ch(s, i - 1) = "/" THEN "" ELSE Ch(s, i)
    IN Rebuild(s, Piece)

PathStr(p) ==
    LET q == CollapseSlashes(p) IN
    IF q = "" THEN "."
    ELSE IF Len(q) > 1 /\ Ch(q, Len(q)) = "/" THEN SubSeq(q, 1, Len(q) - 1)
    ELSE q

(***************************************************************************)
(* Regular expressions of the validator.  Every dangerous pattern is a    *)
(* sequence of literals joined by \s+ ; a trailing \s+ is a last empty    *)
(* literal.                                                               *)
(***************************************************************************)
RECURSIVE MatchParts(_, _, _)
\* parts matches s at position i
MatchParts(s, i, parts) ==
    LET lit == Head(parts) IN
    /\ i + Len(lit) - 1 <= Len(s)
    /\ SubSeq(s, i, i + Len(lit) - 1) = lit
    /\ \/ Len(parts) = 1
       \/ \E k \in 1..(Len(s) - (i + Len(lit)) + 1) :
              /\ \A j \in 0..(k - 1) : IsSpace(Ch(s, i + Len(lit) + j))
              /\ MatchParts(s, i + Len(lit) + k, Tail(parts))

\* re.search
ReSearch(parts, s) == \E i \in 1..(Len(s) + 1) : MatchParts(s, i, parts)

dangerous_patterns ==
    << << "rm", "-rf", "/" >>,
       << "dd", "if=/dev/zero" >>,
       << "mkfs", "" >>,
       << "fdisk", "" >>,
       << "chmod", "777" >>,
       << "chown", "root" >>,
       << "passwd", "" >>,
       << "su", "" >>,
       << "sudo", "su" >> >>

\* safe patterns: ^name\s*$ (bare) or ^name\s+ (with arguments)
safe_patterns ==
    << [name |-> "df", bare |-> TRUE],
       [name |-> "du", bare |-> FALSE],
       [name |-> "free", bare |-> TRUE],
       [name |-> "top", bare |-> TRUE],
       [name |-> "ps", bare |-> FALSE],
       [name |-> "ls", bare |-> FALSE],
       [name |-> "cat", bare |-> FALSE],
       [name |-> "tail", bare |-> FALSE],
       [name |-> "head", bare |-> FALSE],
       [name |-> "grep", bare |-> FALSE],
       [name |-> "find", bare |-> FALSE],
       [name |-> "ping", bare |-> FALSE],
       [name |-> "uptime", bare |-> TRUE],
       [name |-> "who", bare |-> TRUE],
       [name |-> "w", bare |-> TRUE],
       [name |-> "uname", bare |-> TRUE],
       [name |-> "hostname", bare |-> TRUE],
       [name |-> "date", bare |-> TRUE] >>

\* re.match of one safe pattern
ReMatchSafe(p, s) ==
    /\ StartsWith(s, p.name)
    /\ LET rest == SubSeq(s, Len(p.name) + 1, Len(s)) IN
       IF p.bare THEN LStrip(rest) = ""
       ELSE rest # "" /\ IsSpace(Ch(rest, 1))

systemctl_patterns ==
    << "systemctl status", "systemctl start", "systemctl stop",
       "systemctl restart", "systemctl enable", "systemctl disable" >>

(***************************************************************************)
(* CommandValidator                                                        *)
(***************************************************************************)
_clean_command(command) ==
    CollapseSpaces(RemoveComments(StrStrip(command)))

\* the forbidden-list loop, on the lower-cased command
MatchesForbiddenEntry(forbidden, command_lower) ==
    \E f \in forbidden : Contains(command_lower, StrLower(f))

\* the dangerous-pattern loop, on the lower-cased command
MatchesDangerousPattern(command_lower) ==
    \E k \in 1..Len(dangerous_patterns) :
        ReSearch(dangerous_patterns[k], command_lower)

_is_forbidden(forbidden, command) ==
    LET command_lower == StrLower(command) IN
    \/ MatchesForbiddenEntry(forbidden, command_lower)
    \/ MatchesDangerousPattern(command_lower)

MatchesAllowPrefix(command) ==
    /\ BaseCommand(command) = "systemctl"
    /\ \E k \in 1..Len(systemctl_patterns) :
           StartsWith(command, systemctl_patterns[k])

\* the allow check without its base-command match
ExplicitlyAllowed_NoBase(allowed, command) ==
    \/ command \in allowed
    \/ MatchesAllowPrefix(command)

_is_explicitly_allowed(allowed, command) ==
    \/ command \in allowed
    \/ BaseCommand(command) \in allowed
    \/ MatchesAllowPrefix(command)

_accesses_forbidden_paths(paths, command) ==
    LET command_lower == StrLower(command) IN
    \E p \in paths : Contains(command_lower, StrLower(p))

\* the safe-pattern check with every pattern accepting arguments
SafePattern_WithOptions(command) ==
    \E k \in 1..Len(safe_patterns) :
        /\ StartsWith(command, safe_patterns[k].name)
        /\ LET rest == SubSeq(command, Len(safe_patterns[k].name) + 1,
                              Len(command))
           IN rest = "" \/ IsSpace(Ch(rest, 1))

_is_safe_pattern(command) ==
    \E k \in 1..Len(safe_patterns) : ReMatchSafe(safe_patterns[k], command)

\* is_allowed with the allow check moved before the forbidden check
Decide_AllowFirst(init, allowed, forbidden, paths, command) ==
    LET clean_command == _clean_command(command) IN
    IF ~init THEN "NotInitialized"
    ELSE IF _is_explicitly_allowed(allowed, clean_command) THEN "ExplicitAllow"
    ELSE IF _is_forbidden(forbidden, clean_command) THEN "Forbidden"
    ELSE IF _accesses_forbidden_paths(paths, clean_command) THEN "ForbiddenPath"
    ELSE IF _is_safe_pattern(clean_command) THEN "SafePattern"
    ELSE "NotWhitelisted"

\* is_allowed with a default that lets unknown commands through
Decide_DefaultAllow(init, allowed, forbidden, paths, command) ==
    LET clean_command == _clean_command(command) IN
    IF ~init THEN "NotInitialized"
    ELSE IF _is_forbidden(forbidden, clean_command) THEN "Forbidden"
    ELSE IF _is_explicitly_allowed(allowed, clean_command) THEN "ExplicitAllow"
    ELSE IF _accesses_forbidden_paths(paths, clean_command) THEN "ForbiddenPath"
    ELSE "SafePattern"

\* is_allowed reading state outside the policy: once a command has been
\* executed, nothing more is allowed
Decide_AfterExecution(init, allowed, forbidden, paths, command) ==
    LET clean_command == _clean_command(command) IN
    IF ~init THEN "NotInitialized"
    ELSE IF exec_calls # << >> THEN "NotWhitelisted"
    ELSE IF _is_forbidden(forbidden, clean_command) THEN "Forbidden"
    ELSE IF _is_explicitly_allowed(allowed, clean_command) THEN "ExplicitAllow"
    ELSE IF _accesses_forbidden_paths(paths, clean_command) THEN "ForbiddenPath"
    ELSE IF _is_safe_pattern(clean_command) THEN "SafePattern"
    ELSE "NotWhitelisted"

\* is_allowed with the safe-pattern check moved before the path check
Decide_SafeBeforePaths(init, allowed, forbidden, paths, command) ==
    LET clean_command == _clean_command(command) IN
    IF ~init THEN "NotInitialized"
    ELSE IF _is_forbidden(forbidden, clean_command) THEN "Forbidden"
    ELSE IF _is_explicitly_allowed(allowed, clean_command) THEN "ExplicitAllow"
    ELSE IF _is_safe_pattern(clean_command) THEN "SafePattern"
    ELSE IF _accesses_forbidden_paths(paths, clean_command) THEN "ForbiddenPath"
    ELSE "NotWhitelisted"

\* The branch of is_allowed that decides, as the reason it logs.
Decide(init, allowed, forbidden, paths, command) ==
    LET clean_command == _clean_command(command) IN
    IF ~init THEN "NotInitialized"
    ELSE IF _is_forbidden(forbidden, clean_command) THEN "Forbidden"
    ELSE IF _is_explicitly_allowed(allowed, clean_command) THEN "ExplicitAllow"
    ELSE IF _accesses_forbidden_paths(paths, clean_command) THEN "ForbiddenPath"
    ELSE IF _is_safe_pattern(clean_command) THEN "SafePattern"
    ELSE "NotWhitelisted"

AllowReasons == {"ExplicitAllow", "SafePattern"}

is_allowed(init, allowed, forbidden, paths, command) ==
    Decide(init, allowed, forbidden, paths, command) \in AllowReasons


(***************************************************************************)
(* Bounds and input sets                                                   *)
(***************************************************************************)
MaxFrags == 2      \* a direct is_allowed call takes up to MaxFrags fragments
MaxBatch == 2      \* commands extracted from one model response
MaxEvents == 2     \* lines direct AuditLogger calls write in one run
MaxAgeDays == 2    \* days the audit file is left unwritten

Fragments ==
    { "df -h", "cat ", "/etc/shadow", "rm -rf /", "systemctl start sshd",
      "; ", "  ", " # c", "\n", "SUDO  su", "mkfs.ext4 /dev/sda", "uptime",
      "/tmp/x", "passwd root", "df" }

RECURSIVE Concats(_)
Concats(n) ==
    IF n = 0 THEN {""}
    ELSE LET shorter == Concats(n - 1) IN
         shorter \cup { a \o f : a \in shorter, f \in Fragments }

Inputs == Concats(MaxFrags)

\* security configurations (commands.allowed, commands.forbidden,
\* filesystem.forbidden_paths); the first is the one of the test suite
Configs ==
    { [allowed |-> {"df", "ps", "uptime", "systemctl status"},
       forbidden |-> {"rm -rf /", "sudo su", "passwd"},
       forbidden_paths |-> {"/root", "/etc/shadow"}],
      [allowed |-> {}, forbidden |-> {}, forbidden_paths |-> {}],
      [allowed |-> {"cat", "rm", "systemctl", "df -h"},
       forbidden |-> {"Shadow"},
       forbidden_paths |-> {}],
      [allowed |-> {"cat", "uptime", "mkfs.ext4"},
       forbidden |-> {},
       forbidden_paths |-> {"/etc/shadow/"}],
      [allowed |-> {"systemctl start", "df"},
       forbidden |-> {"/DEV"},
       forbidden_paths |-> {"/etc"}] }

AuditConfigs ==
    { [enabled |-> TRUE, log_level |-> "INFO", log_commands |-> TRUE,
       log_responses |-> TRUE, log_errors |-> TRUE, retention_days |-> 1],
      [enabled |-> TRUE, log_level |-> "INFO", log_commands |-> FALSE,
       log_responses |-> TRUE, log_errors |-> FALSE, retention_days |-> 1],
      [enabled |-> TRUE, log_level |-> "WARNING", log_commands |-> TRUE,
       log_responses |-> TRUE, log_errors |-> TRUE, retention_days |-> 1],
      [enabled |-> FALSE, log_level |-> "INFO", log_commands |-> TRUE,
       log_responses |-> TRUE, log_errors |-> TRUE, retention_days |-> 1] }

\* what one model response can hold, and the policies the gate runs under
GateCommands ==
    { "df -h", "rm -rf /", "mkfs.ext4 /dev/sda", "cat 'x",
      "cat /tmp/x # /etc/shadow" }

GateConfigs ==
    { c \in Configs : "df" \in c.allowed \/ "mkfs.ext4" \in c.allowed }

RECURSIVE Batches(_)
Batches(n) ==
    IF n = 0 THEN { << >> }
    ELSE LET shorter == Batches(n - 1) IN
         shorter \cup { Append(b, c) : b \in shorter, c \in GateCommands }

\* what a child process can leave behind: exit code, stdout, stderr
ExitStatuses ==
    { [code |-> 0, out |-> "out", err |-> ""],
      [code |-> 0, out |-> "out", err |-> "err"],
      [code |-> 1, out |-> "out", err |-> "err"],
      [code |-> 1, out |-> "", err |-> ""] }

(***************************************************************************)
(* State after construction (CommandValidator.__init__,                   *)
(* AuditLogger.__init__, SystemExecutor.__init__, SysAdminAgent.__init__) *)
(***************************************************************************)
\* no AuditLogger method called yet.  A call is recorded with its method
\* (op), whether its payload serializes (ok), whether it let an exception
\* escape (raised), and the trail it found: enabled and initialized (on),
\* the lengths of the audit stream (len) and of the module's log (dlen)
NoCall == [op |-> "none", ok |-> TRUE, raised |-> FALSE, on |-> FALSE,
           len |-> 0, dlen |-> 0]

\* the threads that call the audit logger, none of them inside a call
Threads == {1, 2}
IdleThread == [pc |-> "idle", line |-> "", calls |-> 0]

\* the callers of the gateway, by request.client.host
Clients == {"10.0.0.1", "10.0.0.2"}

\* the environment the service is usually started in
ServiceEnviron ==
    { << "PATH", "/usr/sbin:/usr/bin" >>, << "HOME", "/home/inggo" >>,
      << "LANG", "C" >>, << "TZ", "UTC" >> }

ConstructedIn(envs, cfgs, audits, inputs, write_fails) ==
    /\ config \in cfgs
    /\ environ \in envs
    /\ handler = [lock |-> 0, buffer |-> "", file |-> "",
                  thread |-> [t \in Threads |-> IdleThread]]
    /\ gateway = [request_counts |-> [c \in Clients |-> << >>], now |-> 0,
                  requests |-> << >>]
    /\ input \in inputs
    /\ initialized = FALSE
    /\ allowed_commands = {}
    /\ forbidden_commands = {}
    /\ forbidden_paths = {}
    /\ call = [command |-> "", clean |-> "", init |-> FALSE, result |-> "none"]
    /\ \E a \in audits :
           audit = [enabled |-> a.enabled, initialized |-> FALSE,
                    log_level |-> a.log_level,
                    log_commands |-> a.log_commands,
                    log_responses |-> a.log_responses,
                    log_errors |-> a.log_errors,
                    retention_days |-> a.retention_days]
    /\ audit_log = << >>
    /\ diag = << >>
    /\ fs = [log_file |-> "absent", archive |-> "absent", archive_len |-> 0,
             age_days |-> 0, write_fails |-> write_fails]
    /\ last = NoCall
    /\ pc = "idle"
    /\ ret = "none"
    /\ commands = << >>
    /\ decisions = << >>
    /\ validated_commands = << >>
    /\ next_cmd = 0
    /\ exec_calls = << >>
    /\ results = << >>
    /\ epc = "idle"
    /\ proc = [st |-> "none", cmd |-> "", argv |-> << >>, env |-> {},
               code |-> 0, out |-> "", err |-> ""]
    /\ kill_sent = FALSE
    /\ outcome = [kind |-> "none", text |-> ""]

\* the service started in its usual environment
Constructed(cfgs, audits, inputs, write_fails) ==
    ConstructedIn({ServiceEnviron}, cfgs, audits, inputs, write_fails)

\* CommandValidator.initialize
LoadPolicy ==
    /\ allowed_commands' = config.allowed
    /\ forbidden_commands' = config.forbidden
    /\ forbidden_paths' = { PathStr(p) : p \in config.forbidden_paths }
    /\ initialized' = TRUE

ValidatorInitialize ==
    /\ ~initialized
    /\ LoadPolicy
    /\ UNCHANGED << config, environ, handler, gateway >>
    /\ UNCHANGED << input, call, audit, audit_log, diag, fs, last >>
    /\ UNCHANGED gateVars
    /\ UNCHANGED execVars

\* a direct call of CommandValidator.is_allowed on command
IsAllowedCall(command) ==
    /\ call.result = "none"
    /\ call' = [command |-> command, clean |-> _clean_command(command),
                init |-> initialized,
                result |-> Decide(initialized, allowed_commands,
                                  forbidden_commands, forbidden_paths,
                                  command)]

CallIsAllowed ==
    /\ IsAllowedCall(input)
    /\ UNCHANGED << config, environ, handler, gateway >>
    /\ UNCHANGED << input, audit, audit_log, diag, fs, last >>
    /\ UNCHANGED validatorVars
    /\ UNCHANGED gateVars
    /\ UNCHANGED execVars

\* is_allowed given an argument that is not a string (None): command.strip()
\* raises AttributeError inside the try block, the except branch logs the
\* error and returns False; before initialize the call returns False first
CallIsAllowedNonString ==
    /\ call.result = "none"
    /\ call' = [command |-> "None", clean |-> "", init |-> initialized,
                result |-> IF ~initialized THEN "NotInitialized" ELSE "Fault"]
    /\ UNCHANGED << config, environ, handler, gateway >>
    /\ UNCHANGED << input, audit, audit_log, diag, fs, last >>
    /\ UNCHANGED validatorVars
    /\ UNCHANGED gateVars
    /\ UNCHANGED execVars

InitValidator ==
    Constructed(Configs,
                {a \in AuditConfigs :
                     a.enabled /\ a.log_commands /\ a.log_level = "INFO"},
                Inputs, FALSE)

NextValidator == ValidatorInitialize \/ CallIsAllowed

SpecValidator == InitValidator /\ [][NextValidator]_vars

\* direct calls with untrusted arguments: empty, whitespace-only and
\* comment-only strings, unbalanced quotes, and non-strings
EdgeInputs ==
    { "", "  ", "\n", " # c", "# c\n  ", "cat 'x", "cat \"x", "'", "df -h",
      "uptime", "rm -rf /", "cat /etc/shadow" }

InitAnyArgument ==
    Constructed(Configs,
                {a \in AuditConfigs :
                     a.enabled /\ a.log_commands /\ a.log_level = "INFO"},
                EdgeInputs, FALSE)

NextAnyArgument ==
    ValidatorInitialize \/ CallIsAllowed \/ CallIsAllowedNonString

SpecAnyArgument == InitAnyArgument /\ [][NextAnyArgument]_vars



(***************************************************************************)
(* AuditLogger.  The trail is the audit stream, the lines the module       *)
(* writes to its own logger, and the audit file; each log_* call maps the  *)
(* trail to the trail after the call.  A payload is a text and whether     *)
(* building and serializing its entry succeeds (ok).                       *)
(***************************************************************************)
AuditOn(a) == a.enabled /\ a.initialized

\* AuditLogger.initialize
AuditInitialize(a) == [a EXCEPT !.initialized = a.enabled]

\* logging.FileHandler(self.log_file): the file at the active path is opened
\* for appending (created when absent) and stays open
OpenLogFile(a, f) ==
    IF a.enabled THEN [f EXCEPT !.log_file = "stream"] ELSE f

\* raised: the last log_* call let an exception escape
Trail == [log |-> audit_log, diag |-> diag, fs |-> fs, raised |-> FALSE]

SetTrail(t) ==
    /\ audit_log' = t.log
    /\ diag' = t.diag
    /\ fs' = t.fs

Payload(text) == [text |-> text, ok |-> TRUE]

\* the levels of the logging module
LevelNo(level) ==
    CASE level = "DEBUG" -> 10
      [] level = "INFO" -> 20
      [] level = "WARNING" -> 30
      [] level = "ERROR" -> 40

\* Emit with a failed write propagating to the caller of the log_* method
Emit_WriteRaises(a, t, level, entry) ==
    IF LevelNo(level) < LevelNo(a.log_level) THEN t
    ELSE IF t.fs.write_fails THEN [t EXCEPT !.raised = TRUE]
    ELSE [t EXCEPT !.log = Append(@, entry), !.fs.age_days = 0]

\* self.audit_logger.info / warning / error: the logger and its file handler
\* are set to log_level and drop a record below it; the handler appends the
\* line to the file it holds open, and when that write fails the logging
\* module reports it on stderr and returns
Emit(a, t, level, entry) ==
    IF LevelNo(level) < LevelNo(a.log_level) THEN t
    ELSE IF t.fs.write_fails THEN t
    ELSE [t EXCEPT !.log = Append(@, entry), !.fs.age_days = 0]

\* the except branch of a log_* method dropping the failure silently
Failed_Silent(t, what) == t

\* the except branch of a log_* method: logger.error("Failed to log ...")
Failed(t, what) == [t EXCEPT !.diag = Append(@, "Failed to log " \o what)]

log_request(a, t, request) ==
    IF ~AuditOn(a) THEN t
    ELSE IF ~request.ok THEN Failed(t, "request")
    ELSE Emit(a, t, "INFO",
              [kind |-> "REQUEST", text |-> request.text, success |-> TRUE])

log_response(a, t, response) ==
    IF ~AuditOn(a) \/ ~a.log_responses THEN t
    ELSE IF ~response.ok THEN Failed(t, "response")
    ELSE Emit(a, t, "INFO",
              [kind |-> "RESPONSE", text |-> response.text, success |-> TRUE])

\* log_command without its log_commands toggle
log_command_NoToggle(a, t, command, success) ==
    IF ~AuditOn(a) THEN t
    ELSE IF ~command.ok THEN Failed(t, "command")
    ELSE Emit(a, t, "INFO",
              [kind |-> "COMMAND", text |-> command.text, success |-> success])

log_command(a, t, command, success) ==
    IF ~AuditOn(a) \/ ~a.log_commands THEN t
    ELSE IF ~command.ok THEN Failed(t, "command")
    ELSE Emit(a, t, "INFO",
              [kind |-> "COMMAND", text |-> command.text, success |-> success])

log_error(a, t, error) ==
    IF ~AuditOn(a) \/ ~a.log_errors THEN t
    ELSE IF ~error.ok THEN Failed(t, "error")
    ELSE Emit(a, t, "ERROR",
              [kind |-> "ERROR", text |-> error.text, success |-> FALSE])

log_security_event(a, t, event) ==
    IF ~AuditOn(a) THEN t
    ELSE IF ~event.ok THEN Failed(t, "security event")
    ELSE Emit(a, t, "WARNING",
              [kind |-> "SECURITY", text |-> event.text, success |-> FALSE])

\* cleanup_old_logs: the file at the active path, when older than
\* retention_days, is renamed to the dated archive path; the handler keeps
\* the file open
cleanup_old_logs(a, t) ==
    IF ~AuditOn(a) THEN t
    ELSE IF t.fs.log_file = "absent" THEN t
    ELSE IF t.fs.age_days > a.retention_days
         THEN [t EXCEPT !.fs.archive = t.fs.log_file,
                        !.fs.log_file = "absent",
                        !.fs.archive_len = Len(t.log)]
         ELSE t

\* a direct call of an AuditLogger method that leaves the trail t
AuditCall(op, ok, t) ==
    /\ SetTrail(t)
    /\ last' = [op |-> op, ok |-> ok, raised |-> t.raised,
                on |-> AuditOn(audit), len |-> Len(audit_log),
                dlen |-> Len(diag)]
    /\ UNCHANGED << config, environ, handler, gateway >>
    /\ UNCHANGED << input, call, audit >>
    /\ UNCHANGED validatorVars
    /\ UNCHANGED gateVars
    /\ UNCHANGED execVars

\* payloads of direct calls: one that serializes and one that does not
Payloads(text) == { [text |-> text, ok |-> b] : b \in BOOLEAN }

TrailInitialize ==
    /\ ~audit.initialized
    /\ audit' = AuditInitialize(audit)
    /\ fs' = OpenLogFile(audit, fs)
    /\ UNCHANGED << config, environ, handler, gateway >>
    /\ UNCHANGED << input, call, audit_log, diag, last >>
    /\ UNCHANGED validatorVars
    /\ UNCHANGED gateVars
    /\ UNCHANGED execVars

LogRequest ==
    /\ Len(audit_log) + Len(diag) < MaxEvents
    /\ \E x \in Payloads("request") :
           AuditCall("log_request", x.ok, log_request(audit, Trail, x))

LogResponse ==
    /\ Len(audit_log) + Len(diag) < MaxEvents
    /\ \E x \in Payloads("response") :
           AuditCall("log_response", x.ok, log_response(audit, Trail, x))

LogCommand ==
    /\ Len(audit_log) + Len(diag) < MaxEvents
    /\ \E x \in Payloads("command") :
           AuditCall("log_command", x.ok, log_command(audit, Trail, x, TRUE))

LogError ==
    /\ Len(audit_log) + Len(diag) < MaxEvents
    /\ \E x \in Payloads("error") :
           AuditCall("log_error", x.ok, log_error(audit, Trail, x))

LogSecurityEvent ==
    /\ Len(audit_log) + Len(diag) < MaxEvents
    /\ \E x \in Payloads("blocked") :
           AuditCall("log_security_event", x.ok,
                     log_security_event(audit, Trail, x))

\* a maintenance call between requests
CleanupOldLogs ==
    /\ pc = "idle"
    /\ AuditCall("cleanup_old_logs", TRUE, cleanup_old_logs(audit, Trail))

\* a day goes by without a write to the audit file
DayPasses ==
    /\ fs.age_days < MaxAgeDays
    /\ fs' = [fs EXCEPT !.age_days = @ + 1]
    /\ UNCHANGED << config, environ, handler, gateway >>
    /\ UNCHANGED << input, call, audit, audit_log, diag, last >>
    /\ UNCHANGED validatorVars
    /\ UNCHANGED gateVars
    /\ UNCHANGED execVars

InitAudit ==
    \/ Constructed({c \in Configs : c.allowed = {}}, AuditConfigs, {""}, FALSE)
    \/ Constructed({c \in Configs : c.allowed = {}}, AuditConfigs, {""}, TRUE)

NextAudit ==
    \/ TrailInitialize
    \/ LogRequest
    \/ LogResponse
    \/ LogCommand
    \/ LogError
    \/ LogSecurityEvent
    \/ CleanupOldLogs
    \/ DayPasses

SpecAudit == InitAudit /\ [][NextAudit]_vars

(***************************************************************************)
(* Threads calling log_command concurrently.  The call builds its line,    *)
(* and audit_logger.info hands it to the file handler: Handler.handle      *)
(* acquires the handler's lock, StreamHandler.emit writes the line and its *)
(* terminator to the stream in one write and flushes the stream to the     *)
(* file, and the lock is released.                                         *)
(***************************************************************************)
MaxCalls == 2      \* log_command calls of one thread

ThreadNames == << "a", "b" >>
CallNames == << "1", "2", "3", "4" >>

\* the command thread t logs in its n-th call
Label(t, n) == ThreadNames[t] \o CallNames[n]

\* logging.Formatter('%(asctime)s - %(levelname)s - %(message)s'), "T"
\* standing for the time
FormatLine(level, message) == "T - " \o level \o " - " \o message

LineOf(t, n) == FormatLine("INFO", "COMMAND: " \o Label(t, n))

\* log_command reaches the handler: the trail is on, the toggle is on and
\* the logger lets INFO through
Writes(a) ==
    /\ AuditOn(a) /\ a.log_commands
    /\ LevelNo("INFO") >= LevelNo(a.log_level)

\* a handler that never makes a thread wait
CanAcquire_NoLock(lock, t) == TRUE

\* Handler.acquire: the lock is free
CanAcquire(lock, t) == lock = 0

SetThread(t, th) == handler' = [handler EXCEPT !.thread[t] = th]

\* thread t calls log_command: the checks, the entry and json.dumps
ThreadLogCommand(t) ==
    /\ handler.thread[t].pc = "idle"
    /\ handler.thread[t].calls < MaxCalls
    /\ LET n == handler.thread[t].calls + 1 IN
       IF Writes(audit)
       THEN SetThread(t, [pc |-> "acquire", line |-> LineOf(t, n),
                          calls |-> n])
       ELSE SetThread(t, [pc |-> "idle", line |-> "", calls |-> n])
    /\ UNCHANGED << config, environ, gateway, input, call, audit, audit_log,
                    diag, fs, last >>
    /\ UNCHANGED validatorVars
    /\ UNCHANGED gateVars
    /\ UNCHANGED execVars

\* Handler.handle: self.acquire()
HandlerAcquire(t) ==
    /\ handler.thread[t].pc = "acquire"
    /\ CanAcquire(handler.lock, t)
    /\ handler' = [handler EXCEPT !.lock = t, !.thread[t].pc = "emit"]
    /\ UNCHANGED << config, environ, gateway, input, call, audit, audit_log,
                    diag, fs, last >>
    /\ UNCHANGED validatorVars
    /\ UNCHANGED gateVars
    /\ UNCHANGED execVars

\* StreamHandler.emit: stream.write(msg + self.terminator)
StreamWrite(t) ==
    /\ handler.thread[t].pc = "emit"
    /\ handler' = [handler EXCEPT
                       !.buffer = @ \o handler.thread[t].line \o "\n",
                       !.thread[t].pc = "flush"]
    /\ UNCHANGED << config, environ, gateway, input, call, audit, audit_log,
                    diag, fs, last >>
    /\ UNCHANGED validatorVars
    /\ UNCHANGED gateVars
    /\ UNCHANGED execVars

\* StreamHandler.emit: self.flush(), the pending text goes to the file
StreamFlush(t) ==
    /\ handler.thread[t].pc = "flush"
    /\ handler' = [handler EXCEPT !.file = @ \o handler.buffer,
                                  !.buffer = "",
                                  !.thread[t].pc = "release"]
    /\ UNCHANGED << config, environ, gateway, input, call, audit, audit_log,
                    diag, fs, last >>
    /\ UNCHANGED validatorVars
    /\ UNCHANGED gateVars
    /\ UNCHANGED execVars

\* Handler.handle: self.release(); log_command returns
HandlerRelease(t) ==
    /\ handler.thread[t].pc = "release"
    /\ handler' = [handler EXCEPT !.lock = 0, !.thread[t].pc = "idle"]
    /\ UNCHANGED << config, environ, gateway, input, call, audit, audit_log,
                    diag, fs, last >>
    /\ UNCHANGED validatorVars
    /\ UNCHANGED gateVars
    /\ UNCHANGED execVars

InitWriters ==
    Constructed({c \in Configs : c.allowed = {}}, AuditConfigs, {""}, FALSE)

NextWriters ==
    \/ TrailInitialize
    \/ \E t \in Threads : ThreadLogCommand(t)
    \/ \E t \in Threads : HandlerAcquire(t)
    \/ \E t \in Threads : StreamWrite(t)
    \/ \E t \in Threads : StreamFlush(t)
    \/ \E t \in Threads : HandlerRelease(t)

SpecWriters == InitWriters /\ [][NextWriters]_vars

(***************************************************************************)
(* APIGateway: the rate limit of the chat endpoints.  _check_rate_limit    *)
(* holds no await, so one call runs to its end on the event loop before    *)
(* any other request is served; the handler then awaits the model.         *)
(***************************************************************************)
MaxRequests == 4   \* chat requests received
MaxClock == 3      \* ticks of datetime.now()

\* RATE_LIMIT_PER_MINUTE and the window (a minute), in ticks
rate_limit_per_minute == 2
rate_limit_window == 2

\* the timestamps of counts that are inside the window at time now
InWindow(counts, now) ==
    SelectSeq(counts, LAMBDA ts : now - ts < rate_limit_window)

\* the limit test letting one request too many through
OverLimit_OffByOne(counts) == Len(counts) > rate_limit_per_minute

OverLimit(counts) == Len(counts) >= rate_limit_per_minute

\* _check_rate_limit for client_ip at time now: whether the request goes on
\* (429 otherwise) and request_counts[client_ip] after the call
_check_rate_limit(counts, now) ==
    LET kept == InWindow(counts, now) IN
    IF OverLimit(kept)
    THEN [accepted |-> FALSE, counts |-> kept]
    ELSE [accepted |-> TRUE, counts |-> Append(kept, now)]

\* a chat request of client_ip: the rate limit is checked; the request is
\* recorded with the time of the check, request_counts[client_ip] before
\* (prior) and after (counts) it, and whether it is being answered
ChatRequest ==
    /\ Len(gateway.requests) < MaxRequests
    /\ \E client_ip \in Clients :
         LET prior == gateway.request_counts[client_ip]
             checked == _check_rate_limit(prior, gateway.now)
         IN
         gateway' = [gateway EXCEPT
                         !.request_counts[client_ip] = checked.counts,
                         !.requests =
                             Append(@, [client |-> client_ip,
                                        at |-> gateway.now,
                                        prior |-> prior,
                                        counts |-> checked.counts,
                                        status |-> IF checked.accepted
                                                   THEN "responding"
                                                   ELSE "rejected"])]
    /\ UNCHANGED << config, environ, handler, input, call, audit, audit_log,
                    diag, fs, last >>
    /\ UNCHANGED validatorVars
    /\ UNCHANGED gateVars
    /\ UNCHANGED execVars

\* the model answered: the handler of an accepted request returns
ResponseDone ==
    /\ \E i \in 1..Len(gateway.requests) :
         /\ gateway.requests[i].status = "responding"
         /\ gateway' = [gateway EXCEPT !.requests[i].status = "done"]
    /\ UNCHANGED << config, environ, handler, input, call, audit, audit_log,
                    diag, fs, last >>
    /\ UNCHANGED validatorVars
    /\ UNCHANGED gateVars
    /\ UNCHANGED execVars

\* time passes
ClockTick ==
    /\ gateway.now < MaxClock
    /\ gateway' = [gateway EXCEPT !.now = @ + 1]
    /\ UNCHANGED << config, environ, handler, input, call, audit, audit_log,
                    diag, fs, last >>
    /\ UNCHANGED validatorVars
    /\ UNCHANGED gateVars
    /\ UNCHANGED execVars

InitGateway ==
    Constructed({c \in Configs : c.allowed = {}},
                {a \in AuditConfigs : ~a.enabled}, {""}, FALSE)

NextGateway == ChatRequest \/ ResponseDone \/ ClockTick

SpecGateway == InitGateway /\ [][NextGateway]_vars

(***************************************************************************)
(* shlex.split(command): POSIX rules, comments off.  The result is the    *)
(* token list, or ok = FALSE where shlex raises ValueError.               *)
(***************************************************************************)
\* Lex(s, mode) reads s from a position in mode "ws" (between tokens),
\* "word", "sq" or "dq" (inside quotes): has tells whether a token is in
\* progress there, cur is the rest of that token, toks the tokens after it.
RECURSIVE Lex(_, _)
Lex(s, mode) ==
    IF s = ""
    THEN [ok |-> mode \notin {"sq", "dq"}, has |-> mode = "word", cur |-> "",
          toks |-> << >>]
    ELSE LET c == Ch(s, 1)
             rest == Tail(s)
             Add(x, r) == [r EXCEPT !.has = TRUE, !.cur = x \o r.cur]
             EndToken(r) ==
                 [ok |-> r.ok, has |-> mode = "word", cur |-> "",
                  toks |-> IF r.has THEN << r.cur >> \o r.toks ELSE r.toks]
             Fail == [ok |-> FALSE, has |-> FALSE, cur |-> "", toks |-> << >>]
         IN
         CASE mode = "sq" /\ c = "'" -> Add("", Lex(rest, "word"))
           [] mode = "sq" /\ c # "'" -> Add(c, Lex(rest, "sq"))
           [] mode = "dq" /\ c = "\"" -> Add("", Lex(rest, "word"))
           [] mode = "dq" /\ c = "\\" /\ rest # "" /\ Ch(rest, 1) \in {"\"", "\\"}
                -> Add(Ch(rest, 1), Lex(Tail(rest), "dq"))
           [] mode = "dq" /\ c # "\""
                /\ ~(c = "\\" /\ rest # "" /\ Ch(rest, 1) \in {"\"", "\\"})
                -> Add(c, Lex(rest, "dq"))
           [] mode \in {"ws", "word"} /\ IsSpace(c) -> EndToken(Lex(rest, "ws"))
           [] mode \in {"ws", "word"} /\ c = "'" -> Add("", Lex(rest, "sq"))
           [] mode \in {"ws", "word"} /\ c = "\"" -> Add("", Lex(rest, "dq"))
           [] mode \in {"ws", "word"} /\ c = "\\" ->
                IF rest = "" THEN Fail
                ELSE Add(Ch(rest, 1), Lex(Tail(rest), "word"))
           [] OTHER -> Add(c, Lex(rest, "word"))

shlex_split(command) ==
    LET r == Lex(command, "ws") IN
    IF ~r.ok THEN [ok |-> FALSE, tokens |-> << >>]
    ELSE [ok |-> TRUE,
          tokens |-> IF r.has THEN << r.cur >> \o r.toks ELSE r.toks]

(***************************************************************************)
(* SystemExecutor                                                          *)
(***************************************************************************)
\* the re-check the executor offers (it returns the is_safe flag)
check_command_safety(command) ==
    LET patterns == { "rm -rf /", "dd if=/dev/zero", "mkfs", "fdisk",
                      "chmod 777", "chown root", "passwd", "su ", "sudo su" }
        command_lower == StrLower(command)
    IN
    /\ StrStrip(command) # ""
    /\ ~\E pat \in patterns : Contains(command_lower, pat)
    /\ ~Contains(command, "../")
    /\ ~Contains(command, "..\\")

CodeStr(n) == IF n = 0 THEN "0" ELSE "1"

\* an environment is a set of (name, value) pairs, one pair per name
Names(env) == { p[1] : p \in env }
Value(env, name) == (CHOOSE p \in env : p[1] = name)[2]

\* the home directory of the account in the password database
PwdHome == "/home/inggo"

\* str(Path.home()): the value of HOME when the environment has one, the
\* home directory of the password database otherwise
PathHome(env) ==
    IF "HOME" \in Names(env) THEN PathStr(Value(env, "HOME")) ELSE PwdHome

safe_vars == {"TZ", "TMPDIR", "XDG_RUNTIME_DIR"}

_get_safe_environment(env) ==
    LET safe_env == { << "PATH", "/usr/local/bin:/usr/bin:/bin" >>,
                      << "HOME", PathHome(env) >>,
                      << "USER", "inggo" >>,
                      << "SHELL", "/bin/bash" >>,
                      << "TERM", "xterm-256color" >>,
                      << "LANG", "en_US.UTF-8" >>,
                      << "LC_ALL", "en_US.UTF-8" >> }
    IN safe_env \cup { p \in env : p[1] \in safe_vars }

\* the text of a failed command without its standard output
ResultText_NoStdout(p) ==
    IF p.code = 0
    THEN p.out \o (IF p.err # "" THEN "\n[STDERR]\n" \o p.err ELSE "")
    ELSE "Command failed with exit code " \o CodeStr(p.code) \o "\n"
         \o (IF p.err # "" THEN "[STDERR]\n" \o p.err ELSE "")

\* the text execute returns for a completed process
ResultText(p) ==
    IF p.code = 0
    THEN p.out \o (IF p.err # "" THEN "\n[STDERR]\n" \o p.err ELSE "")
    ELSE "Command failed with exit code " \o CodeStr(p.code) \o "\n"
         \o (IF p.err # "" THEN "[STDERR]\n" \o p.err ELSE "")
         \o (IF p.out # "" THEN "[STDOUT]\n" \o p.out ELSE "")

NoProc == [st |-> "none", cmd |-> "", argv |-> << >>, env |-> {},
           code |-> 0, out |-> "", err |-> ""]

(***************************************************************************)
(* SysAdminAgent                                                           *)
(***************************************************************************)
\* execute is running: called by _execute_commands, or called directly
Executing == pc \in {"executing", "direct"}

\* the command execute was given
CurrentCommand ==
    IF pc = "direct" THEN input ELSE validated_commands[next_cmd]

\* every command of cmds[1..n], whatever was decided
Picked_All(cmds, decs, n, allowed) == SubSeq(cmds, 1, n)

\* the commands of cmds[1..n], in order, whose decision is (allowed = TRUE)
\* or is not (allowed = FALSE) an allowing one
RECURSIVE Picked(_, _, _, _)
Picked(cmds, decs, n, allowed) ==
    IF n = 0 THEN << >>
    ELSE IF (decs[n] \in AllowReasons) = allowed
         THEN Append(Picked(cmds, decs, n - 1, allowed), cmds[n])
         ELSE Picked(cmds, decs, n - 1, allowed)

\* the text process_request logs and returns: the blocked notes and, when
\* commands ran, the execution results
Response(cmds, decs, res) ==
    [blocked |-> Picked(cmds, decs, Len(cmds), FALSE), results |-> res]

\* SysAdminAgent.initialize: the validator and the audit logger
AgentInitialize ==
    /\ ~initialized
    /\ pc = "idle"
    /\ LoadPolicy
    /\ audit' = AuditInitialize(audit)
    /\ fs' = OpenLogFile(audit, fs)
    /\ UNCHANGED << config, environ, handler, gateway >>
    /\ UNCHANGED << input, call, audit_log, diag, last >>
    /\ UNCHANGED gateVars
    /\ UNCHANGED execVars

\* the outcome of is_allowed, in the current state, for each command of S
RECURSIVE Decisions(_)
Decisions(S) ==
    IF S = {} THEN << >>
    ELSE LET c == CHOOSE x \in S : TRUE IN
         (c :> Decide(initialized, allowed_commands, forbidden_commands,
                      forbidden_paths, c)) @@ Decisions(S \ {c})

\* what process_request is given: a text, or a value that is not a string
\* (ok = FALSE), of which log_request cannot take the length
UserInputs == { [text |-> "request", ok |-> TRUE],
                [text |-> "request", ok |-> FALSE] }

\* the user inputs tried with the response cs: one that is not a string goes
\* with a response of at most one command
RequestInputs(cs) == { u \in UserInputs : u.ok \/ Len(cs) <= 1 }

\* the except branch of process_request returning without logging the error
ExceptBranch_NoLog(t, r) ==
    /\ SetTrail(t)
    /\ pc' = "done"
    /\ ret' = r

\* the except branch of process_request, entered with the trail t: it logs
\* the error and returns the error text r; an exception of log_error itself
\* escapes process_request
ExceptBranch(t, r) ==
    LET caught == log_error(audit, [t EXCEPT !.raised = FALSE],
                            Payload("Error processing request"))
    IN
    /\ SetTrail(caught)
    /\ pc' = "done"
    /\ ret' = IF caught.raised THEN "raised" ELSE r

\* process_request when producing the model response raises (always so
\* before initialize, when no model is loaded): the except branch
RequestError ==
    /\ pc = "idle"
    /\ \E user_input \in UserInputs :
         LET logged == log_request(audit, Trail, user_input) IN
         ExceptBranch(logged, IF logged.raised THEN "audit_error" ELSE "error")
    /\ commands' = << >>
    /\ decisions' = << >>
    /\ validated_commands' = << >>
    /\ results' = << >>
    /\ exec_calls' = << >>
    /\ next_cmd' = 0
    /\ UNCHANGED << config, environ, handler, gateway >>
    /\ UNCHANGED << input, call, audit, last >>
    /\ UNCHANGED validatorVars
    /\ UNCHANGED execVars

\* process_request up to its first suspension: log the request, extract the
\* commands of the response, validate each, and either return (nothing to
\* run) or enter _execute_commands
RequestStart ==
    /\ pc = "idle"
    /\ initialized
    /\ LET is_allowed_of == Decisions(GateCommands) IN
       \E cs \in Batches(MaxBatch) : \E user_input \in RequestInputs(cs) :
         LET decs == [i \in 1..Len(cs) |-> is_allowed_of[cs[i]]]
             valid == Picked(cs, decs, Len(cs), TRUE)
             logged == log_request(audit, Trail, user_input)
             answered == log_response(audit, logged,
                                      Payload(Response(cs, decs, << >>)))
         IN
         IF logged.raised
         THEN /\ ExceptBranch(logged, "audit_error")
              /\ commands' = << >>
              /\ decisions' = << >>
              /\ validated_commands' = << >>
              /\ next_cmd' = 0
              /\ epc' = "idle"
         ELSE /\ commands' = cs
              /\ decisions' = decs
              /\ validated_commands' = valid
              /\ IF valid = << >>
                 THEN /\ IF answered.raised
                         THEN ExceptBranch(answered, "audit_error")
                         ELSE /\ SetTrail(answered)
                              /\ pc' = "done"
                              /\ ret' = "response"
                      /\ next_cmd' = 0
                      /\ epc' = "idle"
                 ELSE /\ SetTrail(logged)
                      /\ pc' = "executing"
                      /\ ret' = "none"
                      /\ next_cmd' = 1
                      /\ epc' = "start"
    /\ results' = << >>
    /\ exec_calls' = << >>
    /\ proc' = NoProc
    /\ kill_sent' = FALSE
    /\ outcome' = [kind |-> "none", text |-> ""]
    /\ UNCHANGED << config, environ, handler, gateway >>
    /\ UNCHANGED << input, call, audit, last >>
    /\ UNCHANGED validatorVars

\* _execute_commands giving up on the remaining commands at the first
\* execute that raises
ExecuteEnds_StopOnError(kind, text) ==
    LET res == Append(results, [command |-> CurrentCommand,
                                ok |-> kind = "Completed", text |-> text])
        answered == log_response(audit, Trail,
                                 Payload(Response(commands, decisions, res)))
    IN
    /\ outcome' = [kind |-> kind, text |-> text]
    /\ IF pc = "direct"
       THEN /\ UNCHANGED trailVars
            /\ results' = results
            /\ pc' = "done"
            /\ ret' = IF kind = "Completed" THEN "execute_returned"
                      ELSE "execute_raised"
            /\ epc' = "idle"
            /\ next_cmd' = next_cmd
       ELSE IF next_cmd = Len(validated_commands) \/ kind # "Completed"
       THEN /\ results' = res
            /\ IF answered.raised
               THEN ExceptBranch(answered, "audit_error")
               ELSE /\ SetTrail(answered)
                    /\ pc' = "done"
                    /\ ret' = "response"
            /\ epc' = "idle"
            /\ next_cmd' = next_cmd
       ELSE /\ results' = res
            /\ UNCHANGED trailVars
            /\ pc' = pc
            /\ ret' = ret
            /\ epc' = "start"
            /\ next_cmd' = next_cmd + 1
    /\ UNCHANGED << config, environ, handler, gateway >>
    /\ UNCHANGED << input, call, audit, last, commands, decisions,
                    validated_commands >>
    /\ UNCHANGED validatorVars

\* execute ended (returned a text or raised): _execute_commands records the
\* result and goes on to the next command, or returns to process_request,
\* which logs the response and returns it; a direct caller of execute gets
\* the text or the exception itself
ExecuteEnds(kind, text) ==
    LET res == Append(results, [command |-> CurrentCommand,
                                ok |-> kind = "Completed", text |-> text])
        answered == log_response(audit, Trail,
                                 Payload(Response(commands, decisions, res)))
    IN
    /\ outcome' = [kind |-> kind, text |-> text]
    /\ IF pc = "direct"
       THEN /\ UNCHANGED trailVars
            /\ results' = results
            /\ pc' = "done"
            /\ ret' = IF kind = "Completed" THEN "execute_returned"
                      ELSE "execute_raised"
            /\ epc' = "idle"
            /\ next_cmd' = next_cmd
       ELSE IF next_cmd = Len(validated_commands)
       THEN /\ results' = res
            /\ IF answered.raised
               THEN ExceptBranch(answered, "audit_error")
               ELSE /\ SetTrail(answered)
                    /\ pc' = "done"
                    /\ ret' = "response"
            /\ epc' = "idle"
            /\ next_cmd' = next_cmd
       ELSE /\ results' = res
            /\ UNCHANGED trailVars
            /\ pc' = pc
            /\ ret' = ret
            /\ epc' = "start"
            /\ next_cmd' = next_cmd + 1
    /\ UNCHANGED << config, environ, handler, gateway >>
    /\ UNCHANGED << input, call, audit, last, commands, decisions,
                    validated_commands >>
    /\ UNCHANGED validatorVars

\* execute returning an empty result for a command without tokens
ExecParseError_EmptyIsNoOp ==
    /\ Executing /\ epc = "start"
    /\ LET parts == shlex_split(CurrentCommand) IN
       /\ ~parts.ok \/ parts.tokens = << >>
       /\ IF parts.ok THEN ExecuteEnds("Completed", "")
          ELSE ExecuteEnds("InputError", "No closing quotation")
    /\ exec_calls' = Append(exec_calls, CurrentCommand)
    /\ UNCHANGED << proc, kill_sent >>

\* execute: shlex.split raises, or yields no token ("Empty command")
ExecParseError ==
    /\ Executing /\ epc = "start"
    /\ LET parts == shlex_split(CurrentCommand) IN
       /\ ~parts.ok \/ parts.tokens = << >>
       /\ ExecuteEnds("InputError",
                      IF parts.ok THEN "Empty command" ELSE "No closing quotation")
    /\ exec_calls' = Append(exec_calls, CurrentCommand)
    /\ UNCHANGED << proc, kill_sent >>

\* execute: create_subprocess_exec raises (no such binary, no permission)
ExecSpawnFailed ==
    /\ Executing /\ epc = "start"
    /\ LET parts == shlex_split(CurrentCommand) IN
       parts.ok /\ parts.tokens # << >>
    /\ ExecuteEnds("SpawnFailed", "No such file or directory")
    /\ exec_calls' = Append(exec_calls, CurrentCommand)
    /\ proc' = NoProc
    /\ UNCHANGED kill_sent

\* execute: the child process is created; execute awaits communicate()
\* under wait_for
ExecSpawned ==
    /\ Executing /\ epc = "start"
    /\ LET parts == shlex_split(CurrentCommand) IN
       parts.ok /\ parts.tokens # << >>
    /\ exec_calls' = Append(exec_calls, CurrentCommand)
    /\ proc' = [st |-> "running", cmd |-> CurrentCommand,
                argv |-> shlex_split(CurrentCommand).tokens,
                env |-> _get_safe_environment(environ),
                code |-> 0, out |-> "", err |-> ""]
    /\ kill_sent' = FALSE
    /\ epc' = "communicate"
    /\ outcome' = [kind |-> "none", text |-> ""]
    /\ UNCHANGED << config, environ, handler, gateway >>
    /\ UNCHANGED << input, call, audit, audit_log, diag, fs, last,
                    pc, ret,
                    commands, decisions, validated_commands, next_cmd,
                    results >>
    /\ UNCHANGED validatorVars


\* the operating system: the running child terminates on its own
ProcExit ==
    /\ proc.st = "running"
    /\ \E x \in ExitStatuses :
           proc' = [proc EXCEPT !.st = "exited", !.code = x.code,
                                !.out = x.out, !.err = x.err]
    /\ UNCHANGED << config, environ, handler, gateway >>
    /\ UNCHANGED << input, call, audit, audit_log, diag, fs, last,
                    epc, kill_sent,
                    outcome >>
    /\ UNCHANGED validatorVars
    /\ UNCHANGED gateVars

\* execute: communicate() completes within the timeout (the event loop has
\* reaped the child); the result text is built and returned
CommunicateDone ==
    /\ Executing /\ epc = "communicate"
    /\ proc.st = "exited"
    /\ proc' = [proc EXCEPT !.st = "reaped"]
    /\ ExecuteEnds("Completed", ResultText(proc))
    /\ UNCHANGED << exec_calls, kill_sent >>

\* execute: the timer of wait_for fires before communicate() completed;
\* control enters the except asyncio.TimeoutError branch
TimeoutFires ==
    /\ Executing /\ epc = "communicate"
    /\ proc.st \in {"running", "exited"}
    /\ epc' = "timeout"
    /\ UNCHANGED << config, environ, handler, gateway >>
    /\ UNCHANGED << input, call, audit, audit_log, diag, fs, last,
                    proc, kill_sent,
                    outcome >>
    /\ UNCHANGED validatorVars
    /\ UNCHANGED gateVars

\* execute: process.kill() on a child that is still running
KillChild ==
    /\ Executing /\ epc = "timeout"
    /\ proc.st = "running"
    /\ proc' = [proc EXCEPT !.st = "killed"]
    /\ kill_sent' = TRUE
    /\ epc' = "wait"
    /\ UNCHANGED << config, environ, handler, gateway >>
    /\ UNCHANGED << input, call, audit, audit_log, diag, fs, last,
                    outcome >>
    /\ UNCHANGED validatorVars
    /\ UNCHANGED gateVars

\* execute: process.kill() on a child that terminated after the timer fired:
\* no signal is sent, the exit status is collected, and execute goes on to
\* process.wait()
KillExited ==
    /\ Executing /\ epc = "timeout"
    /\ proc.st = "exited"
    /\ proc' = [proc EXCEPT !.st = "reaped"]
    /\ epc' = "wait"
    /\ UNCHANGED << config, environ, handler, gateway >>
    /\ UNCHANGED << input, call, audit, audit_log, diag, fs, last,
                    kill_sent,
                    outcome >>
    /\ UNCHANGED validatorVars
    /\ UNCHANGED gateVars

\* execute: process.kill() on a child the event loop has already reaped and
\* whose transport is closed: kill raises ProcessLookupError, which execute
\* re-raises
KillLookupError ==
    /\ Executing /\ epc = "timeout"
    /\ proc.st = "exited"
    /\ proc' = [proc EXCEPT !.st = "reaped"]
    /\ ExecuteEnds("LookupError", "ProcessLookupError")
    /\ UNCHANGED << exec_calls, kill_sent >>

\* the operating system and the event loop: the killed child dies and is
\* reaped
ChildReaped ==
    /\ proc.st = "killed"
    /\ proc' = [proc EXCEPT !.st = "reaped"]
    /\ UNCHANGED << config, environ, handler, gateway >>
    /\ UNCHANGED << input, call, audit, audit_log, diag, fs, last,
                    epc, kill_sent,
                    outcome >>
    /\ UNCHANGED validatorVars
    /\ UNCHANGED gateVars

\* execute raising TimeoutError right after process.kill(), without
\* awaiting process.wait()
WaitReturns_NoWait ==
    /\ Executing /\ epc = "wait"
    /\ ExecuteEnds("TimedOut", "Command timed out")
    /\ UNCHANGED << exec_calls, proc, kill_sent >>

\* execute: process.wait() returns once the child is reaped, and execute
\* raises TimeoutError
WaitReturns ==
    /\ Executing /\ epc = "wait"
    /\ proc.st = "reaped"
    /\ ExecuteEnds("TimedOut", "Command timed out")
    /\ UNCHANGED << exec_calls, proc, kill_sent >>

\* the caller cancels the task while execute is suspended (in wait_for or in
\* process.wait): CancelledError is a BaseException, so neither execute's
\* except asyncio.TimeoutError / except Exception, nor _execute_commands',
\* nor process_request's except Exception handles it; it propagates to the
\* caller and nothing else runs
Cancel ==
    /\ Executing /\ epc \in {"communicate", "wait"}
    /\ pc' = "done"
    /\ ret' = "cancelled"
    /\ epc' = "idle"
    /\ outcome' = [kind |-> "Cancelled", text |-> ""]
    /\ UNCHANGED << config, environ, handler, gateway >>
    /\ UNCHANGED << input, call, audit, audit_log, diag, fs, last,
                    commands,
                    decisions, validated_commands, next_cmd, exec_calls,
                    results, proc, kill_sent >>
    /\ UNCHANGED validatorVars

\* once process_request has ended, the agent's validator is called directly
\* on the first command of the response
Recheck ==
    /\ pc = "done"
    /\ commands # << >>
    /\ IsAllowedCall(commands[1])
    /\ UNCHANGED << config, environ, handler, gateway >>
    /\ UNCHANGED << input, audit, audit_log, diag, fs, last >>
    /\ UNCHANGED validatorVars
    /\ UNCHANGED gateVars
    /\ UNCHANGED execVars

\* SystemExecutor.execute called directly (as get_system_info and the tests
\* do), on any string
CallExecute ==
    /\ pc = "idle" /\ epc = "idle"
    /\ pc' = "direct"
    /\ epc' = "start"
    /\ UNCHANGED << config, environ, handler, gateway, input, call, audit,
                    audit_log, diag, fs, last, ret, commands, decisions,
                    validated_commands, next_cmd, exec_calls, results,
                    proc, kill_sent, outcome >>
    /\ UNCHANGED validatorVars

\* the strings execute is called on directly
ExecInputs == { "", "  ", "\n", "df -h", "cat 'x", "''" }

\* the variables the service can be started with, and their values
AmbientEnviron ==
    { << "PATH", "/opt/evil/bin" >>, << "HOME", "/tmp/evil/" >>,
      << "TZ", "UTC" >>, << "TMPDIR", "/var/tmp" >>,
      << "XDG_RUNTIME_DIR", "/run/user/1000" >>,
      << "LD_PRELOAD", "/tmp/x.so" >> }

InitExecutor ==
    ConstructedIn(SUBSET AmbientEnviron, {c \in Configs : c.allowed = {}},
                  {a \in AuditConfigs : ~a.enabled}, ExecInputs, FALSE)

NextExecutor ==
    \/ CallExecute
    \/ ExecParseError
    \/ ExecSpawnFailed
    \/ ExecSpawned
    \/ ProcExit
    \/ CommunicateDone
    \/ TimeoutFires
    \/ KillChild
    \/ KillExited
    \/ KillLookupError
    \/ ChildReaped
    \/ WaitReturns
    \/ Cancel

SpecExecutor == InitExecutor /\ [][NextExecutor]_vars

\* the trail fully on
FullAudits ==
    { a \in AuditConfigs :
          a.enabled /\ a.log_commands /\ a.log_errors /\ a.log_level = "INFO" }

\* every audit configuration under the policy of the test suite, and every
\* policy with the trail fully on, its file writable or every write to it
\* failing
Init ==
    \/ Constructed({c \in GateConfigs : "ps" \in c.allowed}, AuditConfigs,
                   {""}, FALSE)
    \/ Constructed(GateConfigs, FullAudits, {""}, FALSE)
    \/ Constructed(GateConfigs, FullAudits, {""}, TRUE)

Next ==
    \/ AgentInitialize
    \/ Recheck
    \/ RequestError
    \/ RequestStart
    \/ ExecParseError
    \/ ExecSpawnFailed
    \/ ExecSpawned
    \/ ProcExit
    \/ CommunicateDone
    \/ TimeoutFires
    \/ KillChild
    \/ KillExited
    \/ KillLookupError
    \/ ChildReaped
    \/ WaitReturns
    \/ Cancel

Spec == Init /\ [][Next]_vars

(***************************************************************************)
(* Properties of CommandValidator.is_allowed (under SpecValidator)         *)
(***************************************************************************)
Called == call.result # "none"
CleanCall == call.clean
Denied(r) == r \in {"NotInitialized", "Forbidden", "ForbiddenPath", "NotWhitelisted"}

\* the policy of the configuration, stated on the normalized command
InForbiddenList ==
    \E f \in config.forbidden : Contains(StrLower(CleanCall), StrLower(f))
IsDangerous ==
    \E k \in 1..Len(dangerous_patterns) :
        ReSearch(dangerous_patterns[k], StrLower(CleanCall))
InAllowList ==
    CleanCall \in config.allowed \/ BaseCommand(CleanCall) \in config.allowed
HasAllowPrefix ==
    /\ BaseCommand(CleanCall) = "systemctl"
    /\ \E k \in 1..Len(systemctl_patterns) :
           StartsWith(CleanCall, systemctl_patterns[k])
HasForbiddenPath ==
    \E p \in config.forbidden_paths :
        Contains(StrLower(CleanCall), StrLower(PathStr(p)))
IsSafeShape ==
    \E k \in 1..Len(safe_patterns) : ReMatchSafe(safe_patterns[k], CleanCall)

\* C1: a command whose normalized form contains a forbidden-list entry or
\* matches a dangerous pattern is denied, whatever the allow list says.
C1_DenyOverridesAllow ==
    (Called /\ (InForbiddenList \/ IsDangerous)) => Denied(call.result)

\* 'systemctl start sshd; rm -rf /' on an initialized validator: it has an
\* allow prefix and matches a dangerous pattern
C1_Witness ==
    /\ Called /\ call.init
    /\ HasAllowPrefix /\ IsDangerous
    /\ call.result = "Forbidden"

\* C2 (as claimed): an allow-listed command that contains a forbidden path is
\* denied.
C2_AllowedCommandOnForbiddenPathDenied ==
    (Called /\ call.init /\ InAllowList /\ HasForbiddenPath)
        => Denied(call.result)

\* C3: a command that is not in the allow list, whose first token is not in it,
\* that has no allow prefix and no safe shape is denied; the reason is
\* NotWhitelisted when no forbidden entry, dangerous pattern or forbidden
\* path matched first.
C3_FailClosed ==
    (Called /\ ~InAllowList /\ ~HasAllowPrefix /\ ~IsSafeShape)
        => /\ Denied(call.result)
           /\ (call.init /\ ~InForbiddenList /\ ~IsDangerous /\ ~HasForbiddenPath)
                  => call.result = "NotWhitelisted"

C3_Witness ==
    /\ Called /\ call.init
    /\ ~InAllowList /\ ~HasAllowPrefix /\ ~IsSafeShape
    /\ call.result = "NotWhitelisted"

\* C4: on an initialized validator, a command whose normalized text or first
\* token is in the allow list and that matches no forbidden entry, dangerous
\* pattern or forbidden path is allowed.
C4_AllowListedAllowed ==
    (Called /\ call.init /\ InAllowList
        /\ ~InForbiddenList /\ ~IsDangerous /\ ~HasForbiddenPath)
        => call.result \in AllowReasons

\* 'df -h' with 'df' allow-listed: allowed through its base command only
C4_Witness ==
    /\ Called /\ call.init
    /\ CleanCall \notin config.allowed
    /\ BaseCommand(CleanCall) \in config.allowed
    /\ ~IsSafeShape
    /\ call.result = "ExplicitAllow"

\* C11 (as claimed): normalizing the normalized command of a call returns it
\* unchanged.
C11_CleanIdempotent ==
    Called => _clean_command(CleanCall) = CleanCall

\* a string in the form the normalization is said to produce: no '#', no
\* whitespace other than single spaces, none at either end
NormalForm(s) ==
    /\ ~Contains(s, "#")
    /\ CollapseSpaces(s) = s
    /\ StrStrip(s) = s

\* C12 (as claimed): the normalized command of a call has no comment, only
\* single spaces and no leading or trailing whitespace, and 'df -h' followed
\* by a comment normalizes to 'df -h' and is decided as 'df -h' is.
C12_NormalizedForm ==
    Called =>
        /\ NormalForm(CleanCall)
        /\ call.command = "df -h # c" =>
               /\ CleanCall = "df -h"
               /\ call.result = Decide(call.init, allowed_commands,
                                       forbidden_commands, forbidden_paths,
                                       "df -h")

\* C13 (as claimed): 'df -h' is allowed by the safe-pattern check when the
\* allow list, the forbidden list, the dangerous patterns and the forbidden
\* paths do not match it.
C13_DfWithOptionsSafe ==
    (Called /\ call.init /\ CleanCall = "df -h"
        /\ ~InAllowList /\ ~HasAllowPrefix
        /\ ~InForbiddenList /\ ~IsDangerous /\ ~HasForbiddenPath)
        => call.result = "SafePattern"

\* C13 (amended): with the allow list, the forbidden list, the dangerous
\* patterns and the forbidden paths not matching, the safe-pattern check
\* alone allows 'df' and 'uptime' only bare and 'cat' only with an argument;
\* 'df' followed by an option is denied as not whitelisted.
C13_SafeShapeAlone ==
    (Called /\ call.init
        /\ ~InAllowList /\ ~HasAllowPrefix
        /\ ~InForbiddenList /\ ~IsDangerous /\ ~HasForbiddenPath)
        => /\ CleanCall \in {"df", "df ", "uptime", "uptime "}
                  => call.result = "SafePattern"
           /\ StartsWith(CleanCall, "cat ") => call.result = "SafePattern"
           /\ CleanCall \in {"cat", "df -h"} => call.result = "NotWhitelisted"
           /\ StartsWith(CleanCall, "df -") => call.result = "NotWhitelisted"

\* bare 'df' with 'df' absent from the allow list: allowed by its shape
C13_Witness ==
    /\ Called /\ call.init
    /\ CleanCall \in {"df", "df "}
    /\ "df" \notin config.allowed
    /\ call.result = "SafePattern"

\* the invocations the dangerous-pattern check is said to cover: a recursive
\* delete of a root path, a raw-device write, a filesystem-format utility
\* (mkfs or mkfs.<fstype>) and chmod 777
NamedDangerous ==
    LET command_lower == StrLower(CleanCall) IN
    \/ ReSearch(<< "rm", "-rf", "/" >>, command_lower)
    \/ ReSearch(<< "dd", "if=/dev/zero" >>, command_lower)
    \/ ReSearch(<< "chmod", "777" >>, command_lower)
    \/ StartsWith(BaseCommand(command_lower), "mkfs")

\* C14 (as claimed): whatever the forbidden list, _is_forbidden is true and
\* is_allowed denies for each of these invocations.
C14_DangerousAlwaysDenied ==
    (Called /\ call.init /\ NamedDangerous)
        => /\ _is_forbidden(forbidden_commands, CleanCall)
           /\ Denied(call.result)

\* the step of the stated order that matches first
FirstMatch ==
    IF InForbiddenList \/ IsDangerous THEN "Forbidden"
    ELSE IF InAllowList \/ HasAllowPrefix THEN "ExplicitAllow"
    ELSE IF HasForbiddenPath THEN "ForbiddenPath"
    ELSE IF IsSafeShape THEN "SafePattern"
    ELSE "NotWhitelisted"

\* C27: on an initialized validator the decision is the one of the first
\* step that matches, in the order forbidden list and dangerous patterns,
\* allow list, forbidden paths, safe patterns, default; a command outside the
\* allow list that has a safe shape and contains a forbidden path is denied.
C27_PathCheckBeforeSafePattern ==
    (Called /\ call.init) =>
        /\ call.result = FirstMatch
        /\ (~InAllowList /\ ~HasAllowPrefix /\ IsSafeShape /\ HasForbiddenPath)
               => Denied(call.result)

\* 'cat /etc/shadow' with 'cat' outside the allow list and '/etc/shadow' a
\* forbidden path: denied for the path although 'cat <file>' is a safe shape
C27_Witness ==
    /\ Called /\ call.init
    /\ ~InAllowList /\ ~HasAllowPrefix
    /\ IsSafeShape /\ HasForbiddenPath
    /\ ~InForbiddenList /\ ~IsDangerous
    /\ call.result = "ForbiddenPath"

\* the allow list has an entry for the systemctl command of the call: the
\* command itself, 'systemctl', or the 'systemctl <subcommand>' prefix
HasSystemctlEntry ==
    \/ CleanCall \in config.allowed
    \/ "systemctl" \in config.allowed
    \/ \E k \in 1..Len(systemctl_patterns) :
           /\ StartsWith(CleanCall, systemctl_patterns[k])
           /\ systemctl_patterns[k] \in config.allowed

\* C28 (as claimed): a 'systemctl <status|start|stop|restart|enable|disable>'
\* command is allowed only when the allow list has a systemctl entry for it.
C28_SystemctlNeedsAllowEntry ==
    (Called /\ call.init /\ HasAllowPrefix /\ ~HasSystemctlEntry)
        => call.result \notin AllowReasons

(***************************************************************************)
(* Properties of is_allowed on untrusted arguments (under SpecAnyArgument) *)
(***************************************************************************)
\* the outcomes with which is_allowed returns False
ReturnsFalse(r) == Denied(r) \/ r = "Fault"

\* the argument is a string that is empty once comments and surrounding
\* whitespace are removed
EmptyArgument == call.command # "None" /\ CleanCall = ""

\* the argument is a string whose quotes do not balance
MalformedQuoting ==
    call.command # "None" /\ ~shlex_split(call.command).ok

\* C16 (as claimed): every is_allowed call returns True or False, and it
\* returns False before initialize, when a check faults, and for an empty,
\* whitespace-only, comment-only or malformed-quoting argument.
C16_NeverRaisesDeniesMalformed ==
    Called =>
        /\ call.result \in AllowReasons \/ ReturnsFalse(call.result)
        /\ ~call.init => ReturnsFalse(call.result)
        /\ call.command = "None" => ReturnsFalse(call.result)
        /\ EmptyArgument => ReturnsFalse(call.result)
        /\ MalformedQuoting => ReturnsFalse(call.result)

(***************************************************************************)
(* Properties of the gate and the executor (under Spec)                    *)
(***************************************************************************)
AuditFullyOn ==
    AuditOn(audit) /\ audit.log_commands /\ audit.log_level = "INFO"
Returned == pc = "done" /\ ret = "response"
DeniedIndexes == { i \in 1..Len(commands) : decisions[i] \notin AllowReasons }

\* audit entries of kind k
RequestEvents(k) == { n \in 1..Len(audit_log) : audit_log[n].kind = k }

\* C5: every command passed to execute was allowed by is_allowed in the same
\* request, and no command is_allowed denied is passed to execute.
C5_ExecuteOnlyAllowed ==
    /\ \A k \in 1..Len(exec_calls) :
           \E i \in 1..Len(commands) :
               commands[i] = exec_calls[k] /\ decisions[i] \in AllowReasons
    /\ \A i \in DeniedIndexes :
           \A k \in 1..Len(exec_calls) : exec_calls[k] # commands[i]

\* a request that returned with one command denied and another one executed
C5_Witness ==
    /\ Returned
    /\ DeniedIndexes # {}
    /\ exec_calls # << >>

\* C6 (as claimed): when the request has returned, every extracted command
\* has its audit entry of kind COMMAND, one per command.
C6_OneCommandEventPerCommand ==
    (Returned /\ AuditFullyOn)
        => /\ Cardinality(RequestEvents("COMMAND")) = Len(commands)
           /\ \A i \in 1..Len(commands) :
                  \E n \in RequestEvents("COMMAND") :
                      audit_log[n].text = commands[i]

\* C7 (as claimed): when the request has returned, every command denied as
\* forbidden or dangerous has one SECURITY audit entry and was not executed.
C7_SecurityEventPerForbidden ==
    (Returned /\ AuditFullyOn)
        => LET forbidden == { i \in 1..Len(commands) :
                                  decisions[i] = "Forbidden" }
           IN
           /\ Cardinality(RequestEvents("SECURITY")) = Cardinality(forbidden)
           /\ \A i \in forbidden :
                  \A k \in 1..Len(exec_calls) : exec_calls[k] # commands[i]

\* C8 (as claimed): a child process exists only for a command that passes
\* the executor's own check_command_safety.
C8_NoProcessForUnsafeCommand ==
    proc.st # "none" => check_command_safety(proc.cmd)

\* C9: execute ends with the timeout outcome only when the child has been
\* reaped, and it waits in process.wait() only for a child that was sent
\* SIGKILL or is already reaped.
C9_TimedOutOnlyAfterReap ==
    /\ outcome.kind = "TimedOut" => proc.st = "reaped"
    /\ epc = "wait" => \/ proc.st = "reaped"
                       \/ proc.st = "killed" /\ kill_sent

\* a timeout on a running child: killed, reaped, then TimedOut
C9_Witness ==
    /\ outcome.kind = "TimedOut"
    /\ kill_sent
    /\ proc.st = "reaped"

\* C10 (as claimed): a cancelled execution leaves no running child process.
C10_CancelledLeavesNoRunningChild ==
    ret = "cancelled" => proc.st # "running"

\* C15: with the policy loaded, the decision of a direct is_allowed call on a
\* command equals the decision process_request got for the same command,
\* whichever call came first and whatever was executed or logged between
\* them, and equal commands of one response get equal decisions.
C15_SameCommandSameDecision ==
    /\ (Called /\ call.init) =>
           \A i \in 1..Len(commands) :
               commands[i] = call.command => decisions[i] = call.result
    /\ \A i, j \in 1..Len(commands) :
           commands[i] = commands[j] => decisions[i] = decisions[j]

\* a request that executed a command and wrote audit entries, and a direct
\* call on a command of that request
C15_Witness ==
    /\ Called /\ call.init
    /\ Returned
    /\ exec_calls # << >>
    /\ audit_log # << >>
    /\ \E i \in 1..Len(commands) : commands[i] = call.command

\* C18: no audit call lets an exception escape into process_request: no
\* request ends in the except branch because of an audit call, and a request
\* whose audit writes all fail still executes every command it validated
\* and returns its response.
C18_AuditNeverAborts ==
    /\ ret \notin {"audit_error", "raised"}
    /\ (pc = "done" /\ ret = "response")
           => Len(exec_calls) = Len(validated_commands)

\* the audit file cannot be written, the request entry is missing from the
\* stream, and the request went on to execute a command and returned
C18_Witness ==
    /\ AuditOn(audit) /\ fs.write_fails
    /\ audit_log = << >>
    /\ Returned
    /\ exec_calls # << >>

\* the commands of the response that is_allowed allowed, in submission order
Authorized == Picked(commands, decisions, Len(commands), TRUE)

IsPrefix(a, b) == Len(a) <= Len(b) /\ SubSeq(b, 1, Len(a)) = a

\* C24: a process that exits with a non-zero code makes execute return a
\* text with the exit code, the standard error and the standard output; a
\* timeout and a spawn failure make execute raise, _execute_commands
\* records them as errors, and the three results differ from each other.
C24_OutcomesDistinguishable ==
    LET r == results[Len(results)]
        failed_texts == { ResultText(x) : x \in { y \in ExitStatuses :
                                                     y.code # 0 } }
    IN
    /\ (outcome.kind = "Completed" /\ proc.code # 0) =>
           /\ r.ok /\ r.text = outcome.text
           /\ StartsWith(r.text, "Command failed with exit code "
                                     \o CodeStr(proc.code) \o "\n")
           /\ proc.err # "" => Contains(r.text, "[STDERR]\n" \o proc.err)
           /\ proc.out # "" => Contains(r.text, "[STDOUT]\n" \o proc.out)
    /\ outcome.kind \in {"TimedOut", "SpawnFailed"} =>
           /\ ~r.ok /\ r.text = outcome.text
           /\ r.text \notin failed_texts
    /\ outcome.kind = "TimedOut" => r.text = "Command timed out"
    /\ outcome.kind = "SpawnFailed" => r.text # "Command timed out"

\* a request whose first command timed out and whose second command ran
\* and exited with a non-zero code
C24_Witness ==
    /\ Returned
    /\ Len(results) = 2
    /\ ~results[1].ok /\ results[1].text = "Command timed out"
    /\ outcome.kind = "Completed" /\ proc.code # 0
    /\ results[2].ok /\ Contains(results[2].text, "[STDOUT]")

\* the trail is enabled and initialized and every toggle is on
AllTogglesOn ==
    /\ AuditOn(audit)
    /\ audit.log_commands /\ audit.log_responses /\ audit.log_errors

\* the audit entries that describe the outcome of the request
OutcomeEvents == RequestEvents("RESPONSE") \cup RequestEvents("ERROR")

\* process_request returned a response or an error text
Answered == pc = "done" /\ ret \in {"response", "error"}

\* the request is first in the audit stream, and once process_request has
\* returned, one entry describes the outcome: it is the last entry, a
\* RESPONSE for a response and an ERROR for an error text
RequestThenOutcome ==
    /\ pc \in {"executing", "done"} =>
           audit_log # << >> /\ audit_log[1].kind = "REQUEST"
    /\ exec_calls # << >> =>
           audit_log # << >> /\ audit_log[1].kind = "REQUEST"
    /\ Answered =>
           /\ Cardinality(OutcomeEvents) = 1
           /\ Len(audit_log) \in OutcomeEvents
           /\ audit_log[Len(audit_log)].kind =
                  (IF ret = "response" THEN "RESPONSE" ELSE "ERROR")
    /\ pc = "executing" => OutcomeEvents = {}

C30_BatchIndependence ==
    /\ pc \in {"executing", "done"} => validated_commands = Authorized
    /\ IsPrefix(exec_calls, validated_commands)
    /\ Len(results) <= Len(exec_calls)
    /\ \A k \in 1..Len(results) : results[k].command = validated_commands[k]
    /\ Returned =>
           /\ exec_calls = validated_commands
           /\ Len(results) = Len(validated_commands)

\* a request whose first authorized command failed to start and whose
\* second one ran to completion
C30_Witness ==
    /\ Returned
    /\ Len(results) = 2
    /\ ~results[1].ok /\ results[1].text = "No such file or directory"
    /\ results[2].ok
    /\ exec_calls = validated_commands

\* C29 (as claimed): the argument vector of every process the gate creates
\* is the tokenization of the normalized text is_allowed examined, so no
\* token of a removed comment reaches the process.
C29_ExecutedIsAuthorized ==
    proc.st # "none" =>
        proc.argv = shlex_split(_clean_command(proc.cmd)).tokens

(***************************************************************************)
(* Properties of the audit trail (under SpecAudit)                         *)
(***************************************************************************)
LogOps == {"log_request", "log_response", "log_command", "log_error",
           "log_security_event"}

\* the kinds that have a toggle
ToggledOps == {"log_response", "log_command", "log_error"}

\* the kind of the last call is switched off by its toggle
Suppressed ==
    \/ last.op = "log_response" /\ ~audit.log_responses
    \/ last.op = "log_command" /\ ~audit.log_commands
    \/ last.op = "log_error" /\ ~audit.log_errors

\* what the last call added to the audit stream and to the module's log
Appended == Len(audit_log) - last.len
Diagnosed == Len(diag) - last.dlen

\* the last call was a log_* call, on an enabled and initialized trail, of a
\* kind that is not suppressed, and its payload did not serialize
SerializationFailed ==
    last.op \in LogOps /\ last.on /\ ~Suppressed /\ ~last.ok

\* C17 (as claimed): when serialization fails, a fallback entry for the event
\* is still appended to the audit stream.
C17_FallbackInAuditStream ==
    SerializationFailed => Appended = 1

\* C17 (amended): when serialization fails, nothing is appended to the audit
\* stream; the call writes one "Failed to log" line to the module's own
\* logger and returns.
C17_FallbackInModuleLog ==
    SerializationFailed =>
        /\ Appended = 0
        /\ Diagnosed = 1
        /\ StartsWith(diag[Len(diag)], "Failed to log ")
        /\ ~last.raised

\* a log_command call whose payload does not serialize, noted in the
\* module's log
C17_Witness ==
    /\ last.op = "log_command" /\ last.on /\ audit.log_commands /\ ~last.ok
    /\ diag # << >>
    /\ diag[Len(diag)] = "Failed to log command"

\* the level at which each method emits its entry
EventLevel ==
    CASE last.op = "log_error" -> "ERROR"
      [] last.op = "log_security_event" -> "WARNING"
      [] OTHER -> "INFO"

\* C19 (as claimed): a log_* call appends nothing when the trail is disabled
\* or not initialized; on an enabled trail a call whose payload serializes
\* and whose write succeeds appends its entry if and only if the toggle of
\* its kind is on.
C19_TogglesDecide ==
    last.op \in LogOps =>
        /\ ~last.on => Appended = 0
        /\ (last.op \in ToggledOps /\ last.on /\ last.ok
               /\ ~fs.write_fails) =>
               (Appended = 1 <=> ~Suppressed)
        /\ Appended \in {0, 1}

\* C19 (amended): a log_* call appends nothing when the trail is disabled or
\* not initialized; on an enabled trail a command, response or error call
\* whose payload serializes and whose write succeeds appends its entry if
\* and only if the toggle of its kind is on and the configured log_level is
\* not above the level of the entry (INFO for response and command, ERROR
\* for error entries).
C19_TogglesAndLevelDecide ==
    last.op \in LogOps =>
        /\ ~last.on => Appended = 0
        /\ (last.op \in ToggledOps /\ last.on /\ last.ok
               /\ ~fs.write_fails) =>
               (Appended = 1 <=>
                    /\ ~Suppressed
                    /\ LevelNo(EventLevel) >= LevelNo(audit.log_level))
        /\ Appended \in {0, 1}

\* log_errors is off and log_responses on: a response entry is appended
C19_Witness ==
    /\ last.op = "log_response" /\ last.on /\ last.ok
    /\ ~audit.log_errors /\ ~audit.log_commands /\ audit.log_responses
    /\ Appended = 1
    /\ audit_log[Len(audit_log)].kind = "RESPONSE"

\* the files as the paths name them: the handler's file holds audit_log
ActiveLog == IF fs.log_file = "stream" THEN audit_log ELSE << >>
ArchivedLog == IF fs.archive = "stream" THEN audit_log ELSE << >>

\* C20 (as claimed): once cleanup_old_logs has archived the log, the archive
\* keeps the events written before it, and the events recorded afterwards
\* are in a file at the active log path, not in the archive.
C20_FreshLogAfterArchival ==
    fs.archive # "absent" =>
        /\ Len(ArchivedLog) = fs.archive_len
        /\ Len(audit_log) > fs.archive_len =>
               /\ fs.log_file # "absent"
               /\ ActiveLog = SubSeq(audit_log, fs.archive_len + 1,
                                     Len(audit_log))

(***************************************************************************)
(* Properties of SystemExecutor.execute called directly (SpecExecutor)     *)
(***************************************************************************)
\* the seven variables the executor always sets, HOME being the home
\* directory of the service account
FixedEnvironment ==
    { << "PATH", "/usr/local/bin:/usr/bin:/bin" >>, << "HOME", PwdHome >>,
      << "USER", "inggo" >>, << "SHELL", "/bin/bash" >>,
      << "TERM", "xterm-256color" >>, << "LANG", "en_US.UTF-8" >>,
      << "LC_ALL", "en_US.UTF-8" >> }

\* C23 (as claimed): whatever the ambient environment, the environment of a
\* spawned process is the seven fixed variables with their fixed values plus
\* those of TZ, TMPDIR and XDG_RUNTIME_DIR the ambient environment sets;
\* nothing else of the ambient environment reaches it.
C23_OnlyFixedAndSafeVars ==
    proc.st # "none" =>
        proc.env = FixedEnvironment \cup { p \in environ : p[1] \in safe_vars }

\* the command tokenizes to an empty argument vector
EmptyArgv(command) ==
    LET parts == shlex_split(command) IN parts.ok /\ parts.tokens = << >>

\* C25: execute called on a command that tokenizes to no token raises
\* ValueError("Empty command"): no process is created and the call does not
\* end as a completed execution.
C25_EmptyCommandIsInputError ==
    (exec_calls # << >> /\ EmptyArgv(exec_calls[Len(exec_calls)])) =>
        /\ outcome = [kind |-> "InputError", text |-> "Empty command"]
        /\ proc.st = "none"
        /\ pc = "done" /\ ret = "execute_raised"

\* execute called on a whitespace-only string
C25_Witness ==
    /\ exec_calls = << "  " >>
    /\ outcome.kind = "InputError"
    /\ ret = "execute_raised"
    /\ proc.st = "none"

(***************************************************************************)
(* Properties of concurrent log_command calls (SpecWriters)                *)
(***************************************************************************)
\* the positions of the line terminators of the audit file
Terminators == { i \in 1..Len(handler.file) : Ch(handler.file, i) = "\n" }

\* the line of the audit file that the terminator at position p ends
FileLine(p) ==
    LET before == { q \in Terminators : q < p }
        start == IF before = {} THEN 1
                 ELSE 1 + CHOOSE q \in before : \A r \in before : r <= q
    IN SubSeq(handler.file, start, p - 1)

\* the lines the threads have handed to audit_logger.info so far
IssuedLines ==
    { LineOf(t, n) : t \in Threads, n \in 1..(MaxCalls + 1) }

\* the threads inside Handler.handle, between acquire and release
InHandler == { t \in Threads : handler.thread[t].pc
                                   \in {"emit", "flush", "release"} }

\* C21: under any interleaving of concurrent log_command calls on the one
\* audit file, the handler is held by one thread at a time, the file is a
\* sequence of whole lines, each of them the line of one event and no event
\* twice, and the event of every call that has left the handler is in the
\* file: no two events' bytes are interleaved and none is partially written.
C21_LinesNotInterleaved ==
    /\ Cardinality(InHandler) <= 1
    /\ \A t \in InHandler : handler.lock = t
    /\ handler.file = "" \/ Ch(handler.file, Len(handler.file)) = "\n"
    /\ \A p \in Terminators : FileLine(p) \in IssuedLines
    /\ \A p, q \in Terminators : p # q => FileLine(p) # FileLine(q)
    /\ \A t \in Threads :
         /\ handler.thread[t].pc \in {"release", "idle"}
         /\ handler.thread[t].line # ""
         => \E p \in Terminators : FileLine(p) = handler.thread[t].line

\* both threads have a line in the file, and one waits for the handler
\* while the other is writing its next line
C21_Witness ==
    /\ \E p, q \in Terminators :
         /\ FileLine(p) = LineOf(1, 1)
         /\ FileLine(q) = LineOf(2, 1)
    /\ \E t, u \in Threads :
         /\ handler.thread[t].pc = "acquire"
         /\ handler.thread[u].pc = "flush"
         /\ handler.buffer = handler.thread[u].line \o "\n"

(***************************************************************************)
(* Properties of the gateway's rate limit (SpecGateway)                    *)
(***************************************************************************)
\* the recorded timestamps of client_ip that are inside the window now
RecordedInWindow(client_ip) ==
    InWindow(gateway.request_counts[client_ip], gateway.now)

\* C22: under any interleaving of requests, every check prunes the
\* timestamps older than the window, accepts and records the request only
\* if fewer than rate_limit_per_minute timestamps remain, and records no
\* timestamp for a rejected request; the recorded in-window timestamps of
\* one client never exceed the limit.
C22_RateLimitAtomic ==
    /\ \A c \in Clients :
         /\ Len(RecordedInWindow(c)) <= rate_limit_per_minute
         /\ Len(gateway.request_counts[c]) <= rate_limit_per_minute
    /\ \A i \in 1..Len(gateway.requests) :
         LET r == gateway.requests[i]
             kept == InWindow(r.prior, r.at)
         IN
         /\ \A k \in 1..Len(r.counts) : r.at - r.counts[k] < rate_limit_window
         /\ r.status = "rejected" =>
              /\ Len(kept) >= rate_limit_per_minute
              /\ r.counts = kept
         /\ r.status # "rejected" =>
              /\ Len(kept) < rate_limit_per_minute
              /\ r.counts = Append(kept, r.at)

\* a client is turned away while an earlier request of the same client is
\* still being answered, and a later check of that client has pruned a
\* timestamp that left the window
C22_Witness ==
    /\ \E i, j \in 1..Len(gateway.requests) :
         /\ i < j
         /\ gateway.requests[i].client = gateway.requests[j].client
         /\ gateway.requests[i].status = "responding"
         /\ gateway.requests[j].status = "rejected"
    /\ \E i \in 1..Len(gateway.requests) :
         LET r == gateway.requests[i] IN
         Len(InWindow(r.prior, r.at)) < Len(r.prior)

=============================================================================
